---------------------------- MODULE Spec2Model ----------------------------
(***************************************************************************)
(* The trade query service of API/Scripts/main.py: a store of Trade        *)
(* records built once at import time, the list endpoint GET /trades        *)
(* (filter, sort, paginate) and the lookup endpoint GET /trades/{trade_id}.*)
(*                                                                         *)
(* Strings are sequences of code points, so that str.lower(), str.strip()  *)
(* and the code-point order used by sorted() are computed, not assumed.    *)
(* Prices are points of an integer grid: the code only compares them.      *)
(***************************************************************************)
EXTENDS Integers, Sequences, FiniteSets, TLC

VARIABLES trades, request, response, frame

vars == <<trades, request, response, frame>>

-----------------------------------------------------------------------------
(* Bounds of the model                                                     *)

MaxStore == 3
MaxTime == 2
MaxPrice == 2
MaxPage == 3

(* perPage: int = Query(10, ge=1, le=100); page: int = Query(1, ge=1)      *)
MinPage == 1
MinPerPage == 1
MaxPerPage == 100
DefaultPage == 1
DefaultPerPage == 10

-----------------------------------------------------------------------------
(* Optional values and raw query parameters                                *)

None == [kind |-> "none"]
Some(x) == [kind |-> "val", v |-> x]
(* A raw query parameter the declared type cannot parse *)
Unparseable == [kind |-> "bad"]

IsSome(o) == o.kind = "val"

-----------------------------------------------------------------------------
(* Strings as code-point sequences                                         *)

EmptyStr == << >>

(* str.lower() on the ASCII range *)
LowerChar(c) == IF c \in 65..90 THEN c + 32 ELSE c
Lower(s) == [i \in DOMAIN s |-> LowerChar(s[i])]

(* str.strip(): drops leading and trailing whitespace *)
IsSpace(c) == c \in {9, 10, 11, 12, 13, 32}

RECURSIVE LStrip(_)
LStrip(s) ==
    IF s # << >> /\ IsSpace(Head(s)) THEN LStrip(Tail(s)) ELSE s

RECURSIVE RStrip(_)
RStrip(s) ==
    IF s # << >> /\ IsSpace(s[Len(s)]) THEN RStrip(SubSeq(s, 1, Len(s) - 1)) ELSE s

Strip(s) == RStrip(LStrip(s))

(* str.__lt__: lexicographic by code point, a proper prefix is smaller *)
RECURSIVE StrLt(_, _)
StrLt(a, b) ==
    IF b = << >> THEN FALSE
    ELSE IF a = << >> THEN TRUE
    ELSE IF Head(a) # Head(b) THEN Head(a) < Head(b)
    ELSE StrLt(Tail(a), Tail(b))

-----------------------------------------------------------------------------
(* datetime values: an instant and whether the value carries a UTC offset  *)

Naive(t) == [t |-> t, aware |-> FALSE]
Aware(t) == [t |-> t, aware |-> TRUE]

(* datetime comparison raises TypeError for one naive and one aware operand *)
DtComparable(a, b) == a.aware = b.aware
DtLe(a, b) == a.t <= b.t
DtLt(a, b) == a.t < b.t

-----------------------------------------------------------------------------
(* The data model                                                          *)

STR_FX == <<70, 88>>
STR_Bond == <<66, 111, 110, 100>>
STR_Equity == <<69, 113, 117, 105, 116, 121>>
STR_BUY == <<66, 85, 89>>
STR_SELL == <<83, 69, 76, 76>>

TradeDetails(bs, price, quantity) ==
    [buySellIndicator |-> bs, price |-> price, quantity |-> quantity]

Trade(ac, cp, iid, iname, t, details, id, who) ==
    [asset_class |-> ac, counterparty |-> cp, instrument_id |-> iid,
     instrument_name |-> iname, trade_date_time |-> Naive(t),
     trade_details |-> details, trade_id |-> id, trader |-> who]

(* Values the default factories can produce.  trade_date_time is          *)
(* datetime.now(): naive, and wall-clock time need not increase along the  *)
(* store.  trade_id is uuid4(): nothing in the code excludes a repeat.     *)
TradePool ==
    { Trade(STR_FX, <<72, 105, 108, 108>>, <<65, 66>>, <<99, 100>>, 2,
            TradeDetails(STR_BUY, 0, 1), <<97, 49>>, <<102, 48>>),
      Trade(STR_Bond, <<67, 111, 108, 101>>, <<67, 68>>, <<97, 98>>, 1,
            TradeDetails(STR_SELL, 1, 1), <<98, 50>>, <<48, 102>>),
      Trade(STR_Equity, <<72, 105, 108, 108>>, <<65, 66>>, <<97, 98>>, 2,
            TradeDetails(STR_BUY, 2, 2), <<97, 49>>, <<48, 102>>),
      Trade(STR_FX, <<67, 111, 108, 101>>, <<65, 66>>, <<99, 100>>, 1,
            TradeDetails(STR_BUY, 2, 1000), <<99, 51>>, <<102, 48>>) }

(* generate_random_trades(num_trades): num_trades default-built Trades *)
generate_random_trades ==
    UNION { [1..n -> TradePool] : n \in 0..MaxStore }


-----------------------------------------------------------------------------
(* Query parameters of GET /trades after FastAPI has read them             *)

QueryParams(ac, e, maxP, minP, st, tt, pg, pp, srt) ==
    [op |-> "get_trades", assetClass |-> ac, end |-> e, maxPrice |-> maxP,
     minPrice |-> minP, start |-> st, tradeType |-> tt, page |-> pg,
     perPage |-> pp, sort |-> srt]

(* Python truthiness of an Optional[str]: None and "" are both falsy *)
Truthy(o) == IsSome(o) /\ o.v # EmptyStr

(* Python truthiness of an Optional[datetime]: every datetime is truthy *)
TruthyDt(o) == IsSome(o)

(* Boundary validation declared by the parameter types and Query(...) *)
ValidPage(pg) == pg >= MinPage
ValidPerPageNoMax(pp) == pp >= MinPerPage
ValidPerPage(pp) == pp >= MinPerPage /\ pp <= MaxPerPage
Validates(q) ==
    /\ ValidPage(q.page)
    /\ ValidPerPage(q.perPage)
    /\ q.start # Unparseable /\ q.end # Unparseable
    /\ q.maxPrice # Unparseable /\ q.minPrice # Unparseable

-----------------------------------------------------------------------------
(* The handler's working state: the module-level list `trades`, the list  *)
(* the local name filtered_trades is bound to, whether that list is the   *)
(* store object itself, and the exception raised so far.                  *)

NoExc == "none"
TypeError == "TypeError"

Env0(store) == [store |-> store, ft |-> store, alias |-> TRUE, exc |-> NoExc]

(* filtered_trades = <new list>: the name is rebound, no list is written *)
Rebind(env, l) == [env EXCEPT !.ft = l, !.alias = FALSE]
Raise(env, e) == [env EXCEPT !.exc = e]

FilterAssetClass(env, q) ==
    IF env.exc # NoExc \/ ~Truthy(q.assetClass) THEN env
    ELSE Rebind(env, SelectSeq(env.ft,
            LAMBDA trade : Lower(trade.asset_class) = Lower(q.assetClass.v)))

FilterEnd(env, q) ==
    IF env.exc # NoExc \/ ~TruthyDt(q.end) THEN env
    ELSE IF \E i \in DOMAIN env.ft :
                ~DtComparable(env.ft[i].trade_date_time, q.end.v)
         THEN Raise(env, TypeError)
         ELSE Rebind(env, SelectSeq(env.ft,
                 LAMBDA trade : DtLe(trade.trade_date_time, q.end.v)))

MaxPriceSupplied(q) == IsSome(q.maxPrice)

FilterMaxPrice(env, q) ==
    IF env.exc # NoExc \/ ~MaxPriceSupplied(q) THEN env
    ELSE Rebind(env, SelectSeq(env.ft,
            LAMBDA trade : trade.trade_details.price <= q.maxPrice.v))

MinPriceSupplied(q) == IsSome(q.minPrice)

FilterMinPrice(env, q) ==
    IF env.exc # NoExc \/ ~MinPriceSupplied(q) THEN env
    ELSE Rebind(env, SelectSeq(env.ft,
            LAMBDA trade : trade.trade_details.price >= q.minPrice.v))

FilterStart(env, q) ==
    IF env.exc # NoExc \/ ~TruthyDt(q.start) THEN env
    ELSE IF \E i \in DOMAIN env.ft :
                ~DtComparable(env.ft[i].trade_date_time, q.start.v)
         THEN Raise(env, TypeError)
         ELSE Rebind(env, SelectSeq(env.ft,
                 LAMBDA trade : DtLe(q.start.v, trade.trade_date_time)))

FilterTradeType(env, q) ==
    IF env.exc # NoExc \/ ~Truthy(q.tradeType) THEN env
    ELSE Rebind(env, SelectSeq(env.ft,
            LAMBDA trade : Lower(trade.trade_details.buySellIndicator)
                             = Lower(q.tradeType.v)))

(* Lines 50-68: the six filters in the order the code applies them *)
ApplyFilters(store, q) ==
    FilterTradeType(
      FilterStart(
        FilterMinPrice(
          FilterMaxPrice(
            FilterEnd(
              FilterAssetClass(Env0(store), q), q), q), q), q), q)

-----------------------------------------------------------------------------
(* Sorting                                                                 *)

NoKey == "none"

SortKeySwapped(field_name) ==
    CASE field_name = <<97, 115, 115, 101, 116, 99, 108, 97, 115, 115>>
            -> "asset_class"
      [] field_name = <<99, 111, 117, 110, 116, 101, 114, 112, 97, 114, 116, 121>>
            -> "counterparty"
      [] field_name = <<105, 110, 115, 116, 114, 117, 109, 101, 110, 116, 105, 100>>
            -> "instrument_name"
      [] field_name = <<105, 110, 115, 116, 114, 117, 109, 101, 110, 116, 110, 97, 109, 101>>
            -> "instrument_id"
      [] field_name = <<116, 114, 97, 100, 101, 100, 97, 116, 101, 116, 105, 109, 101>>
            -> "trade_date_time"
      [] field_name = <<116, 114, 97, 100, 101, 105, 100>>
            -> "trade_id"
      [] field_name = <<116, 114, 97, 100, 101, 114>>
            -> "trader"
      [] OTHER -> NoKey

SortKeyDefaulting(field_name) ==
    CASE field_name = <<97, 115, 115, 101, 116, 99, 108, 97, 115, 115>>
            -> "asset_class"
      [] field_name = <<99, 111, 117, 110, 116, 101, 114, 112, 97, 114, 116, 121>>
            -> "counterparty"
      [] field_name = <<105, 110, 115, 116, 114, 117, 109, 101, 110, 116, 105, 100>>
            -> "instrument_id"
      [] field_name = <<105, 110, 115, 116, 114, 117, 109, 101, 110, 116, 110, 97, 109, 101>>
            -> "instrument_name"
      [] field_name = <<116, 114, 97, 100, 101, 100, 97, 116, 101, 116, 105, 109, 101>>
            -> "trade_date_time"
      [] field_name = <<116, 114, 97, 100, 101, 114>>
            -> "trader"
      [] OTHER -> "trade_id"

(* Lines 73-86: the if/elif chain from the normalised name to the key.    *)
(* "assetclass", "counterparty", "instrumentid", "instrumentname",        *)
(* "tradedatetime", "tradeid", "trader"                                   *)
SortKey(field_name) ==
    CASE field_name = <<97, 115, 115, 101, 116, 99, 108, 97, 115, 115>>
            -> "asset_class"
      [] field_name = <<99, 111, 117, 110, 116, 101, 114, 112, 97, 114, 116, 121>>
            -> "counterparty"
      [] field_name = <<105, 110, 115, 116, 114, 117, 109, 101, 110, 116, 105, 100>>
            -> "instrument_id"
      [] field_name = <<105, 110, 115, 116, 114, 117, 109, 101, 110, 116, 110, 97, 109, 101>>
            -> "instrument_name"
      [] field_name = <<116, 114, 97, 100, 101, 100, 97, 116, 101, 116, 105, 109, 101>>
            -> "trade_date_time"
      [] field_name = <<116, 114, 97, 100, 101, 105, 100>>
            -> "trade_id"
      [] field_name = <<116, 114, 97, 100, 101, 114>>
            -> "trader"
      [] OTHER -> NoKey

(* key(a) < key(b) for the key function the branch passes to sorted() *)
KeyLt(key, a, b) ==
    IF key = "trade_date_time"
    THEN DtLt(a.trade_date_time, b.trade_date_time)
    ELSE StrLt(a[key], b[key])

(* sorted(): ascending and stable.  x goes in front of the first element  *)
(* whose key is greater, so behind every element with an equal key.       *)
RECURSIVE Insert(_, _, _)
Insert(s, x, key) ==
    IF s = << >> THEN <<x>>
    ELSE IF KeyLt(key, x, Head(s)) THEN <<x>> \o s
    ELSE <<Head(s)>> \o Insert(Tail(s), x, key)

RECURSIVE Sorted(_, _)
Sorted(l, key) ==
    IF l = << >> THEN << >>
    ELSE Insert(Sorted(SubSeq(l, 1, Len(l) - 1), key), l[Len(l)], key)

(* list.sort() in place of sorted(): writes the list the name is bound to *)
SortInPlace(env, key) ==
    [env EXCEPT !.ft = Sorted(env.ft, key),
                !.store = IF env.alias THEN Sorted(env.ft, key) ELSE @]

(* filtered_trades = sorted(filtered_trades, key=...): a new list *)
SortedCall(env, key) == Rebind(env, Sorted(env.ft, key))

(* Lines 71-86 *)
ApplySort(env, q) ==
    IF env.exc # NoExc \/ ~Truthy(q.sort) THEN env
    ELSE LET field_name == Lower(Strip(q.sort.v))
         IN  IF SortKey(field_name) = NoKey THEN env
             ELSE SortedCall(env, SortKey(field_name))

-----------------------------------------------------------------------------
(* Pagination                                                              *)

Min(a, b) == IF a <= b THEN a ELSE b

StartIndexOffByOne(page, perPage) == page * perPage
StartIndex(page, perPage) == (page - 1) * perPage
EndIndex(page, perPage) == StartIndex(page, perPage) + perPage

(* l[s:e] for 0 <= s <= e: the elements at 0-based positions s .. e-1 that exist *)
Slice(l, s, e) == SubSeq(l, s + 1, Min(e, Len(l)))

Paginate(l, page, perPage) ==
    Slice(l, StartIndex(page, perPage), EndIndex(page, perPage))

-----------------------------------------------------------------------------
(* get_trades (lines 39-94): the handler's locals at the point it returns  *)
(* or raises.                                                              *)

get_trades(store, q) ==
    LET filtered == ApplyFilters(store, q)
        ordered == ApplySort(filtered, q)
    IN  IF ordered.exc # NoExc
        THEN [kind |-> "get_trades", exc |-> ordered.exc, store |-> ordered.store,
              filtered |-> << >>, ordered |-> << >>, total_trades |-> 0,
              paginated_trades |-> << >>]
        ELSE [kind |-> "get_trades", exc |-> NoExc, store |-> ordered.store,
              filtered |-> filtered.ft, ordered |-> ordered.ft,
              total_trades |-> Len(ordered.ft),
              paginated_trades |-> Paginate(ordered.ft, q.page, q.perPage)]

-----------------------------------------------------------------------------
(* get_trade (lines 96-101)                                                *)

ErrorDict == [error |-> "Trade not found"]

IdMatchesIgnoringCase(tid, trade_id) == Lower(tid) = Lower(trade_id)
IdMatches(tid, trade_id) == tid = trade_id

(* for trade in trades: if trade.trade_id == trade_id: return trade *)
RECURSIVE Scan(_, _)
Scan(l, trade_id) ==
    IF l = << >> THEN [found |-> FALSE, value |-> << >>]
    ELSE IF IdMatches(Head(l).trade_id, trade_id)
         THEN [found |-> TRUE, value |-> <<Head(l)>>]
         ELSE Scan(Tail(l), trade_id)

get_trade(store, trade_id) ==
    [kind |-> "get_trade", exc |-> NoExc, store |-> store,
     returned |-> Scan(store, trade_id)]

-----------------------------------------------------------------------------
(* Responses.  body is the JSON array of a list response, or the single    *)
(* object of a lookup response as a one-element sequence.                  *)

NoRequest == [op |-> "none"]
NoResponse == [status |-> 0, kind |-> "none", body |-> << >>]
NoFrame == [kind |-> "none"]

(* response_model=List[Trade]: 200 with the page *)
PageResponse(l) == [status |-> 200, kind |-> "page", body |-> l]
(* a query parameter failing its declared type or range: 422, no handler call *)
ValidationError == [status |-> 422, kind |-> "validation_error", body |-> << >>]
(* an exception escaping the handler: 500 *)
ServerError == [status |-> 500, kind |-> "server_error", body |-> << >>]
(* response_model=Trade: 200 with a Trade object *)
TradeResponse(t) == [status |-> 200, kind |-> "trade", body |-> <<t>>]

(* response_model=Trade applied to what get_trade returned.  A Trade is    *)
(* sent as it is.  The dict {"error": ...} is validated as a Trade: the    *)
(* key "error" is no field, every field has a default_factory, so the      *)
(* result is a freshly generated Trade, sent with status 200.              *)
SerializeTrade(returned) ==
    IF returned.found THEN { TradeResponse(returned.value[1]) }
    ELSE { TradeResponse(t) : t \in TradePool }

-----------------------------------------------------------------------------
(* Requests a client can send                                              *)

NaiveTimes == { Some(Naive(t)) : t \in 1..MaxTime }
AwareTimes == { Some(Aware(t)) : t \in 1..MaxTime }
PriceVals == {None} \cup { Some(p) : p \in 0..MaxPrice }

(* None, "", "bond", "FX" *)
AssetClassVals ==
    { None, Some(EmptyStr), Some(<<98, 111, 110, 100>>), Some(STR_FX) }

(* None, "", "buy", "Sell" *)
TradeTypeVals ==
    { None, Some(EmptyStr), Some(<<98, 117, 121>>), Some(<<83, 101, 108, 108>>) }

(* None, "", "   ", "price", " TRADEID ", "tradeId", "assetClass",         *)
(* "counterparty", "instrumentId", "instrumentName", "tradeDateTime",     *)
(* "trader"                                                               *)
SortVals ==
    { None, Some(EmptyStr), Some(<<32, 32, 32>>),
      Some(<<112, 114, 105, 99, 101>>),
      Some(<<32, 84, 82, 65, 68, 69, 73, 68, 32>>),
      Some(<<116, 114, 97, 100, 101, 73, 100>>),
      Some(<<97, 115, 115, 101, 116, 67, 108, 97, 115, 115>>),
      Some(<<99, 111, 117, 110, 116, 101, 114, 112, 97, 114, 116, 121>>),
      Some(<<105, 110, 115, 116, 114, 117, 109, 101, 110, 116, 73, 100>>),
      Some(<<105, 110, 115, 116, 114, 117, 109, 101, 110, 116, 78, 97, 109, 101>>),
      Some(<<116, 114, 97, 100, 101, 68, 97, 116, 101, 84, 105, 109, 101>>),
      Some(<<116, 114, 97, 100, 101, 114>>) }

PageVals == 0..MaxPage
PerPageVals == { 0, 1, 2, MaxPerPage, MaxPerPage + 1 }

(* time and price bounds, everything else at its default *)
BoundRequests ==
    { QueryParams(None, e, maxP, minP, st, None, DefaultPage, DefaultPerPage, None) :
        e \in {None} \cup NaiveTimes, st \in {None} \cup NaiveTimes,
        maxP \in PriceVals, minP \in PriceVals }

(* string filters, with timestamps that carry an offset or do not parse *)
MatchRequests ==
    { QueryParams(ac, e, None, None, st, tt, DefaultPage, DefaultPerPage, None) :
        ac \in AssetClassVals, tt \in TradeTypeVals,
        st \in {None, Unparseable} \cup NaiveTimes \cup AwareTimes,
        e \in {None, Some(Aware(MaxTime))} }

(* sort and pagination, in and out of the declared ranges *)
PageRequests ==
    { QueryParams(None, None, None, None, None, tt, pg, pp, srt) :
        tt \in {None, Some(<<98, 117, 121>>)},
        pg \in PageVals, pp \in PerPageVals, srt \in SortVals }

(* prices and end that do not parse *)
BadRequests ==
    { QueryParams(None, e, maxP, minP, None, None, DefaultPage, DefaultPerPage, None) :
        e \in {None, Unparseable},
        maxP \in {None, Unparseable, Some(0)},
        minP \in {None, Unparseable, Some(0)} }

(* a sort together with a start that carries an offset *)
MixedRequests ==
    { QueryParams(None, None, None, None, st, None, DefaultPage, DefaultPerPage, srt) :
        st \in AwareTimes,
        srt \in { Some(<<112, 114, 105, 99, 101>>),
                  Some(<<116, 114, 97, 100, 101, 73, 100>>) } }

ListRequests ==
    BoundRequests \cup MatchRequests \cup PageRequests \cup BadRequests
        \cup MixedRequests

(* "a1", "b2", "c3", "A1", "f" *)
LookupIds == { <<97, 49>>, <<98, 50>>, <<99, 51>>, <<65, 49>>, <<102>> }

-----------------------------------------------------------------------------
(* The state machine                                                       *)

(* trades = generate_random_trades(100), once, at import *)
Init ==
    /\ trades \in generate_random_trades
    /\ request = NoRequest
    /\ response = NoResponse
    /\ frame = NoFrame

(* A client sends GET /trades?... *)
RequestTrades ==
    /\ request = NoRequest
    /\ \E q \in ListRequests : request' = q
    /\ UNCHANGED <<trades, response, frame>>

(* A client sends GET /trades/{trade_id} *)
RequestTrade ==
    /\ request = NoRequest
    /\ \E id \in LookupIds : request' = [op |-> "get_trade", trade_id |-> id]
    /\ UNCHANGED <<trades, response, frame>>

(* What the client of GET /trades gets for the handler's frame *)
ListResponse(f) ==
    IF f.exc # NoExc THEN ServerError ELSE PageResponse(f.paginated_trades)

(* GET /trades: validation at the boundary, then the handler body, which   *)
(* is a coroutine without an await and so runs to its end in one step.     *)
HandleGetTrades ==
    /\ request.op = "get_trades"
    /\ response = NoResponse
    /\ IF ~Validates(request)
       THEN /\ response' = ValidationError
            /\ UNCHANGED <<trades, frame>>
       ELSE LET f == get_trades(trades, request)
            IN  /\ frame' = f
                /\ trades' = f.store
                /\ response' = ListResponse(f)
    /\ UNCHANGED request

(* GET /trades/{trade_id} *)
HandleGetTrade ==
    /\ request.op = "get_trade"
    /\ response = NoResponse
    /\ LET f == get_trade(trades, request.trade_id)
       IN  /\ frame' = f
           /\ trades' = f.store
           /\ response' \in SerializeTrade(f.returned)
    /\ UNCHANGED request

(* The response reaches the client; the handler's locals are gone *)
Deliver ==
    /\ response # NoResponse
    /\ request' = NoRequest
    /\ response' = NoResponse
    /\ frame' = NoFrame
    /\ UNCHANGED trades

Next ==
    \/ RequestTrades
    \/ RequestTrade
    \/ HandleGetTrades
    \/ HandleGetTrade
    \/ Deliver

Spec == Init /\ [][Next]_vars

-----------------------------------------------------------------------------
(* Vocabulary of the properties                                            *)

(* a list request has been answered *)
ListAnswered == request.op = "get_trades" /\ response # NoResponse
(* the handler body ran to its return statement *)
ListReturned == ListAnswered /\ frame.kind = "get_trades" /\ frame.exc = NoExc
(* a lookup has been answered *)
LookupAnswered == request.op = "get_trade" /\ response # NoResponse

(* start <= tradeDateTime <= end and minPrice <= price <= maxPrice, each   *)
(* bound only when supplied, timestamps compared as instants               *)
InBounds(r, q) ==
    /\ IsSome(q.start) => q.start.v.t <= r.trade_date_time.t
    /\ IsSome(q.end) => r.trade_date_time.t <= q.end.v.t
    /\ IsSome(q.minPrice) => q.minPrice.v <= r.trade_details.price
    /\ IsSome(q.maxPrice) => r.trade_details.price <= q.maxPrice.v

(* the string filters the request carries, when they are not empty *)
MatchesStrings(r, q) ==
    /\ Truthy(q.assetClass) => Lower(r.asset_class) = Lower(q.assetClass.v)
    /\ Truthy(q.tradeType) =>
           Lower(r.trade_details.buySellIndicator) = Lower(q.tradeType.v)

ExpectedFiltered(store, q) ==
    SelectSeq(store, LAMBDA r : InBounds(r, q) /\ MatchesStrings(r, q))

(* On every request whose handler does not raise, the filtered sequence   *)
(* is the in-bounds records of the store, in store order.                 *)
FiltersSelectBoundsUnlessRaised ==
    ListReturned => frame.filtered = ExpectedFiltered(trades, request)

(* the seven recognized names, lowercased, and the field each one names *)
RecognizedField ==
    [name \in { <<97, 115, 115, 101, 116, 99, 108, 97, 115, 115>>,
                <<99, 111, 117, 110, 116, 101, 114, 112, 97, 114, 116, 121>>,
                <<105, 110, 115, 116, 114, 117, 109, 101, 110, 116, 105, 100>>,
                <<105, 110, 115, 116, 114, 117, 109, 101, 110, 116, 110, 97, 109, 101>>,
                <<116, 114, 97, 100, 101, 100, 97, 116, 101, 116, 105, 109, 101>>,
                <<116, 114, 97, 100, 101, 105, 100>>,
                <<116, 114, 97, 100, 101, 114>> } |->
        CASE name = <<97, 115, 115, 101, 116, 99, 108, 97, 115, 115>> -> "asset_class"
          [] name = <<99, 111, 117, 110, 116, 101, 114, 112, 97, 114, 116, 121>> -> "counterparty"
          [] name = <<105, 110, 115, 116, 114, 117, 109, 101, 110, 116, 105, 100>> -> "instrument_id"
          [] name = <<105, 110, 115, 116, 114, 117, 109, 101, 110, 116, 110, 97, 109, 101>> -> "instrument_name"
          [] name = <<116, 114, 97, 100, 101, 100, 97, 116, 101, 116, 105, 109, 101>> -> "trade_date_time"
          [] name = <<116, 114, 97, 100, 101, 105, 100>> -> "trade_id"
          [] OTHER -> "trader"]

Recognized == DOMAIN RecognizedField

Bijections(n) == { p \in [1..n -> 1..n] : \A i, j \in 1..n : p[i] = p[j] => i = j }

(* s is l reordered ascending by key, equal keys in their order in l *)
StableAscending(s, l, key) ==
    /\ Len(s) = Len(l)
    /\ \E p \in Bijections(Len(l)) :
          /\ \A i \in 1..Len(l) : s[i] = l[p[i]]
          /\ \A i, j \in 1..Len(l) :
                i < j => /\ ~KeyLt(key, s[j], s[i])
                         /\ ~KeyLt(key, s[i], s[j]) => p[i] < p[j]

RECURSIVE PagesUpTo(_, _, _)
PagesUpTo(l, perPage, n) ==
    IF n = 0 THEN << >>
    ELSE PagesUpTo(l, perPage, n - 1) \o Paginate(l, n, perPage)

(* the response of the same request with the sort parameter left out *)
WithoutSort(store, q) == ListResponse(get_trades(store, [q EXCEPT !.sort = None]))

-----------------------------------------------------------------------------
(* C1: a lookup by an id that is no record's tradeId ends in an explicit   *)
(* not-found outcome, never in a Trade object under a success status.      *)
C1_AbsentIdIsNotFound ==
    (LookupAnswered /\ \A i \in DOMAIN trades : trades[i].trade_id # request.trade_id)
        => ~(response.status = 200 /\ response.kind = "trade")

(* C2: no list query and no lookup adds, removes, reorders or modifies a   *)
(* record of the store: every step leaves the store as it was.             *)
C2_StoreNeverChanges == [][trades' = trades]_vars

(* a sort ran on the unfiltered store and produced another order *)
C2_Witness ==
    /\ ListReturned
    /\ frame.filtered = trades
    /\ frame.ordered # trades
    /\ response.body = frame.ordered

(* C3: for every combination of supplied start, end, minPrice and maxPrice *)
(* the records remaining before pagination are exactly the store records   *)
(* within the inclusive bounds, in store order when there is no sort.      *)
C3_RemainingIsExactlyInBounds ==
    (ListAnswered /\ Validates(request)) =>
        /\ frame.exc = NoExc
        /\ frame.filtered = ExpectedFiltered(trades, request)
        /\ request.sort = None => frame.ordered = frame.filtered

(* C4: with assetClass or tradeType supplied (the empty string included),  *)
(* every record of the returned page matches it after lowercasing.         *)
C4_PageMatchesSuppliedStrings ==
    (ListAnswered /\ response.kind = "page") =>
        \A i \in DOMAIN response.body :
            /\ IsSome(request.assetClass) =>
                   Lower(response.body[i].asset_class) = Lower(request.assetClass.v)
            /\ IsSome(request.tradeType) =>
                   Lower(response.body[i].trade_details.buySellIndicator)
                       = Lower(request.tradeType.v)

(* C5: the page is the part of the sorted sequence that starts at offset   *)
(* (page-1)*perPage and has at most perPage records, it is empty when the  *)
(* offset is at or beyond the end, and the pages 1, 2, 3, ... in order     *)
(* make up the whole sequence exactly once.                                *)
C5_PagesPartitionTheSequence ==
    ListReturned =>
        LET l == frame.ordered
            offset == (request.page - 1) * request.perPage
            size == IF offset >= Len(l) THEN 0 ELSE Min(request.perPage, Len(l) - offset)
        IN  /\ response.body = [i \in 1..size |-> l[offset + i]]
            /\ Len(response.body) <= request.perPage
            /\ PagesUpTo(l, request.perPage, Len(l) + 1) = l
            /\ \A n \in 1..(Len(l) + 1) :
                   (n - 1) * request.perPage >= Len(l)
                       => Paginate(l, n, request.perPage) = << >>

(* a last page that is not full *)
C5_Witness ==
    /\ ListReturned
    /\ request.page = 2 /\ request.perPage = 2
    /\ Len(frame.ordered) = 3
    /\ response.body = <<frame.ordered[3]>>

(* C6: when sort is, in any letter case, one of the seven names, the       *)
(* sequence handed to pagination is the filtered set in ascending order of *)
(* that field, records with equal values in their filtered order.          *)
C6_SortIsStableAscending ==
    (ListReturned /\ IsSome(request.sort) /\ Lower(request.sort.v) \in Recognized) =>
        StableAscending(frame.ordered, frame.filtered,
                        RecognizedField[Lower(request.sort.v)])

(* three records, two of them with the same key, put in another order *)
C6_Witness ==
    /\ ListReturned
    /\ IsSome(request.sort) /\ Lower(request.sort.v) \in Recognized
    /\ Len(frame.filtered) = 3
    /\ frame.ordered # frame.filtered
    /\ \E i, j \in 1..3 :
          /\ i # j
          /\ frame.filtered[i] # frame.filtered[j]
          /\ ~KeyLt(RecognizedField[Lower(request.sort.v)],
                    frame.filtered[i], frame.filtered[j])
          /\ ~KeyLt(RecognizedField[Lower(request.sort.v)],
                    frame.filtered[j], frame.filtered[i])

(* C7, as stated: a sort value that is not, compared case-insensitively,   *)
(* one of the seven names gives the response of the request without sort.  *)
C7_UnmatchedSortIsNoOp ==
    (ListAnswered /\ Validates(request) /\ IsSome(request.sort)
        /\ Lower(request.sort.v) \notin Recognized)
        => response = WithoutSort(trades, request)

(* C7, amended: a sort value that is not one of the seven names after its  *)
(* surrounding whitespace is stripped and it is lowercased gives the       *)
(* response of the request without sort, the filtered order unchanged.     *)
C7_UnmatchedStrippedSortIsNoOp ==
    (ListAnswered /\ Validates(request) /\ IsSome(request.sort)
        /\ Lower(Strip(request.sort.v)) \notin Recognized)
        => /\ response = WithoutSort(trades, request)
           /\ frame.exc = NoExc => frame.ordered = frame.filtered

(* "price" as sort over a page of several records *)
C7_Witness ==
    /\ ListReturned
    /\ request.sort = Some(<<112, 114, 105, 99, 101>>)
    /\ Len(response.body) >= 2
    /\ response.body # Sorted(response.body, "trade_id")

(* C8: every well-typed list request is answered with a page.              *)
C8_PipelineIsTotal ==
    (ListAnswered /\ Validates(request)) => response.kind = "page"

(* C9: a lookup by the tradeId of some record returns the first record of  *)
(* the store with exactly that tradeId; an id that differs from a tradeId  *)
(* only in letter case matches nothing.                                    *)
C9_LookupReturnsFirstExactMatch ==
    LookupAnswered =>
        LET hits == { i \in DOMAIN trades : trades[i].trade_id = request.trade_id }
        IN  IF hits = {}
            THEN ~frame.returned.found
            ELSE LET first == CHOOSE i \in hits : \A j \in hits : i <= j
                 IN  /\ frame.returned.found
                     /\ frame.returned.value = <<trades[first]>>
                     /\ response = TradeResponse(trades[first])

(* two different records carry the id, the earlier one is returned *)
C9_Witness ==
    /\ LookupAnswered
    /\ frame.returned.found
    /\ \E i, j \in DOMAIN trades :
          /\ i < j
          /\ trades[i].trade_id = request.trade_id
          /\ trades[j].trade_id = request.trade_id
          /\ trades[i] # trades[j]
          /\ response.body = <<trades[i]>>

(* C10: page < 1, perPage < 1, perPage > 100 or an unparseable start, end, *)
(* minPrice or maxPrice ends in a validation error; the handler body does  *)
(* not run and no page is produced.                                        *)
C10_OutOfRangeIsRejected ==
    (ListAnswered /\ ( \/ request.page < 1
                       \/ request.perPage < 1
                       \/ request.perPage > 100
                       \/ Unparseable \in { request.start, request.end,
                                            request.minPrice, request.maxPrice } ))
        => /\ response = ValidationError
           /\ frame = NoFrame

(* perPage = 101 is refused *)
C10_Witness ==
    /\ ListAnswered
    /\ request.perPage = 101
    /\ request.page >= 1
    /\ response.status = 422
    /\ trades # << >>

=============================================================================
